---------------------------- MODULE Spec2Model ----------------------------
(***************************************************************************)
(* computeSales.py: a price catalogue is joined against a sales record,    *)
(* per-product and grand totals are accumulated, and a tabular report is   *)
(* printed and written to SalesResults.txt.                                *)
(*                                                                         *)
(* Representation.                                                         *)
(*  - A text is a sequence of lines; a line is a record                    *)
(*    [kind, label, quantity, amount].  stdout is the sequence of the      *)
(*    arguments of the print calls made so far (print's own line           *)
(*    terminator is the boundary between two elements).                    *)
(*  - A parsed JSON value is [type, items]; Python's None is the value     *)
(*    of type "null".                                                      *)
(*  - A dict is a sequence of [key, value] entries in insertion order.     *)
(*  - Prices and costs are binary floating-point numbers.  They are held   *)
(*    as integers counting quarters of a dollar (2^-2, exact in binary),   *)
(*    and every float operation rounds its exact result to MantBits        *)
(*    significant bits, ties to even, as IEEE-754 does with 53 bits.       *)
(*    Quantities are Python ints and are exact.                            *)
(*  - An uncaught exception ends the run at pc = "raised": the traceback   *)
(*    goes to stderr, nothing more is printed or written.                  *)
(***************************************************************************)
EXTENDS Integers, Sequences, FiniteSets

(* ------------------------------ bounds --------------------------------- *)

MaxCat == 2

MaxSales == 3

MantBits == 2

Titles == {"A", "B"}

Products == {"A", "B", "Ghost"}

Prices == {1, 3}

Quantities == {1, 3}

Elapsed == {15, 1000002}

RECURSIVE SeqsUpTo(_, _)
SeqsUpTo(S, n) ==
    IF n = 0 THEN {<<>>}
    ELSE LET shorter == SeqsUpTo(S, n - 1)
         IN  shorter \cup {Append(s, x) : s \in {t \in shorter : Len(t) = n - 1}, x \in S}

(* --------------------------- floating point ---------------------------- *)

RECURSIVE Pow2(_)
Pow2(n) == IF n = 0 THEN 1 ELSE 2 * Pow2(n - 1)

RECURSIVE Ulp(_, _)
Ulp(x, u) == IF x < Pow2(MantBits) * u THEN u ELSE Ulp(x, 2 * u)

FRound(x) ==
    LET u == Ulp(x, 1)
        q == x \div u
        r == x % u
    IN  IF 2 * r < u THEN q * u
        ELSE IF 2 * r > u THEN (q + 1) * u
        ELSE IF q % 2 = 0 THEN q * u ELSE (q + 1) * u

FAdd(a, b) == FRound(a + b)

FMul(a, b) == FRound(a * b)

(* ------------------------------- dict ---------------------------------- *)

DictHas(d, k) == \E j \in 1..Len(d) : d[j].key = k

DictGet(d, k) == d[CHOOSE j \in 1..Len(d) : d[j].key = k].value

\* Faulty variant of DictSet: an updated key moves to the end of the order.
DictSetMoveToEnd(d, k, v) ==
    Append(SelectSeq(d, LAMBDA e : e.key # k), [key |-> k, value |-> v])

DictSet(d, k, v) ==
    IF DictHas(d, k)
    THEN [j \in 1..Len(d) |-> IF d[j].key = k THEN [key |-> k, value |-> v] ELSE d[j]]
    ELSE Append(d, [key |-> k, value |-> v])

DictKeys(d) == [j \in 1..Len(d) |-> d[j].key]

(* ----------------------------- documents ------------------------------- *)

None == [type |-> "null", items |-> <<>>]

Number == [type |-> "number", items |-> <<>>]

Array(items) == [type |-> "array", items |-> items]

CatalogueItems == [title : Titles, price : Prices]

SaleItems == [Product : Products, Quantity : Quantities]

Missing == [status |-> "missing", value |-> None]

Malformed == [status |-> "malformed", value |-> None]

Json(v) == [status |-> "json", value |-> v]

CatalogueFiles ==
    {Missing, Malformed, Json(None), Json(Number)}
        \cup {Json(Array(s)) : s \in SeqsUpTo(CatalogueItems, MaxCat)}

SalesFiles ==
    {Missing, Malformed, Json(None), Json(Number)}
        \cup {Json(Array(s)) : s \in SeqsUpTo(SaleItems, MaxSales)}

ArgVectors ==
    { <<"computeSales.py">>,
      <<"computeSales.py", "priceCatalogue.json">>,
      <<"computeSales.py", "priceCatalogue.json", "salesRecord.json">>,
      <<"computeSales.py", "priceCatalogue.json", "salesRecord.json", "extra">> }

(* ------------------------------- lines --------------------------------- *)

Line(kind, label, quantity, amount) ==
    [kind |-> kind, label |-> label, quantity |-> quantity, amount |-> amount]

UsageMsg == <<Line("usage", "python computeSales.py priceCatalogue.json salesRecord.json", 0, <<0, 0>>)>>

NotFoundMsg(filename) == <<Line("not_found", filename, 0, <<0, 0>>)>>

InvalidMsg(filename) == <<Line("invalid_json", filename, 0, <<0, 0>>)>>

WarningMsg(product_sold) == <<Line("warning", product_sold, 0, <<0, 0>>)>>

PriorContent == <<Line("stale", "previous run", 0, <<0, 0>>)>>

line_sep_str == Line("sep", "+---+---+---+", 0, <<0, 0>>)

Fmt2(x) == <<x \div 4, 25 * (x % 4)>>

Fmt6(e) == <<e \div 1000000, e % 1000000>>


(* ------------------------------- state --------------------------------- *)

VARIABLES
    pc,                    \* position in main()
    sys_argv,              \* the command line
    catalogue_file,        \* what argv[1] names on disk, once consulted
    sales_file,            \* what argv[2] names on disk, once consulted
    opens,                 \* the open() calls made so far, by file name
    price_catalogue,       \* main's price_catalogue
    sales_record,          \* main's sales_record
    computed,              \* compute_total_cost has been called
    price_catalogue_dict,  \* compute_total_cost's lookup dict
    i,                     \* position of the for loop in sales_record
    total_cost,
    total_quantity,
    unitary_cost,
    stdout,                \* the display stream
    results_file           \* the content of SalesResults.txt

vars == <<pc, sys_argv, catalogue_file, sales_file, opens, price_catalogue,
          sales_record, computed, price_catalogue_dict, i, total_cost,
          total_quantity, unitary_cost, stdout, results_file>>

Unread == [status |-> "unread", value |-> None]

Init ==
    /\ pc = "start"
    /\ sys_argv \in ArgVectors
    /\ catalogue_file = Unread
    /\ sales_file = Unread
    /\ opens = <<>>
    /\ price_catalogue = None
    /\ sales_record = None
    /\ computed = FALSE
    /\ price_catalogue_dict = <<>>
    /\ i = 0
    /\ total_cost = 0
    /\ total_quantity = 0
    /\ unitary_cost = <<>>
    /\ stdout = <<>>
    /\ results_file = PriorContent

(* --------------------------- load_json_file ---------------------------- *)

load_json_file(file, filename) ==
    IF file.status = "missing" THEN [ret |-> None, out |-> <<NotFoundMsg(filename)>>]
    ELSE IF file.status = "malformed" THEN [ret |-> None, out |-> <<InvalidMsg(filename)>>]
    ELSE [ret |-> file.value, out |-> <<>>]

(* -------------------------- compute_total_cost ------------------------- *)

\* Faulty variant of DictComprehension: the first entry of a title is kept.
RECURSIVE DictComprehensionFirstWins(_, _)
DictComprehensionFirstWins(items, n) ==
    IF n = 0 THEN <<>>
    ELSE LET d == DictComprehensionFirstWins(items, n - 1)
         IN  IF DictHas(d, items[n].title) THEN d
             ELSE DictSet(d, items[n].title, items[n].price)

RECURSIVE DictComprehension(_, _)
DictComprehension(items, n) ==
    IF n = 0 THEN <<>>
    ELSE DictSet(DictComprehension(items, n - 1), items[n].title, items[n].price)

\* Faulty variant of Lookup: a missing product is priced 0 (dict.get(p, 0)).
LookupDefaultZero(dict, product_sold) ==
    IF DictHas(dict, product_sold)
    THEN [found |-> TRUE, item_price |-> DictGet(dict, product_sold)]
    ELSE [found |-> TRUE, item_price |-> 0]

Lookup(dict, product_sold) ==
    IF DictHas(dict, product_sold)
    THEN [found |-> TRUE, item_price |-> DictGet(dict, product_sold)]
    ELSE [found |-> FALSE, item_price |-> 0]

\* Faulty variant of LineCost: the quantity is forgotten.
LineCostNoQuantity(item_price, quantity) == item_price

LineCost(item_price, quantity) == FMul(item_price, quantity)

\* Faulty variant of Accumulate: a repeated product overwrites its entry.
AccumulateOverwrite(uc, product_sold, quantity, item_price) ==
    DictSet(uc, product_sold, <<quantity, LineCost(item_price, quantity)>>)

\* Faulty variant of Accumulate: a repeated product adds its cost only.
AccumulateCostOnly(uc, product_sold, quantity, item_price) ==
    IF ~DictHas(uc, product_sold)
    THEN DictSet(uc, product_sold, <<quantity, LineCost(item_price, quantity)>>)
    ELSE LET old == DictGet(uc, product_sold)
         IN  DictSet(uc, product_sold,
                     <<old[1], FAdd(old[2], LineCost(item_price, quantity))>>)

Accumulate(uc, product_sold, quantity, item_price) ==
    IF ~DictHas(uc, product_sold)
    THEN DictSet(uc, product_sold, <<quantity, LineCost(item_price, quantity)>>)
    ELSE LET old == DictGet(uc, product_sold)
         IN  DictSet(uc, product_sold,
                     <<old[1] + quantity, FAdd(old[2], LineCost(item_price, quantity))>>)

\* Faulty variant of Warn: a product is warned about once only.
WarnOnce(out, product_sold) ==
    IF \E j \in 1..Len(out) : out[j] = WarningMsg(product_sold)
    THEN out
    ELSE Append(out, WarningMsg(product_sold))

Warn(out, product_sold) == Append(out, WarningMsg(product_sold))

(* ------------------------------- report -------------------------------- *)

BuildReport(uc, total_amount, cost, elapsed_time) ==
    << line_sep_str,
       Line("header", "Product | Quantity | Total Unit Cost", 0, <<0, 0>>),
       line_sep_str >>
    \o [j \in 1..Len(uc) |->
            Line("product", uc[j].key, uc[j].value[1], Fmt2(uc[j].value[2]))]
    \o << line_sep_str,
          Line("total", "Total Cost of Sales", total_amount, Fmt2(cost)),
          line_sep_str,
          Line("time", "Time Elapsed", 0, Fmt6(elapsed_time)),
          line_sep_str >>

\* Faulty variant of WriteResults: the file is opened with 'a'.
WriteResultsAppend(prior, report_str) == prior \o report_str

WriteResults(prior, report_str) == report_str

(* -------------------------------- main --------------------------------- *)

\* Faulty variant of AfterLoad: the early return is missing.
AfterLoadContinue(document, next) == next

AfterLoad(document, next) == IF document.type = "null" THEN "done" ELSE next

Start ==
    /\ pc = "start"
    /\ IF Len(sys_argv) # 3
       THEN /\ stdout' = Append(stdout, UsageMsg)
            /\ pc' = "done"
       ELSE /\ stdout' = stdout
            /\ pc' = "load_catalogue"
    /\ UNCHANGED <<sys_argv, catalogue_file, sales_file, opens, price_catalogue,
                   sales_record, computed, price_catalogue_dict, i, total_cost,
                   total_quantity, unitary_cost, results_file>>

LoadCatalogue ==
    /\ pc = "load_catalogue"
    /\ \E file \in CatalogueFiles :
         LET r == load_json_file(file, sys_argv[2])
         IN  /\ catalogue_file' = file
             /\ opens' = Append(opens, sys_argv[2])
             /\ stdout' = stdout \o r.out
             /\ price_catalogue' = r.ret
             /\ pc' = AfterLoad(r.ret, "load_sales")
    /\ UNCHANGED <<sys_argv, sales_file, sales_record, computed,
                   price_catalogue_dict, i, total_cost, total_quantity,
                   unitary_cost, results_file>>

LoadSales ==
    /\ pc = "load_sales"
    /\ \E file \in SalesFiles :
         LET r == load_json_file(file, sys_argv[3])
         IN  /\ sales_file' = file
             /\ opens' = Append(opens, sys_argv[3])
             /\ stdout' = stdout \o r.out
             /\ sales_record' = r.ret
             /\ pc' = AfterLoad(r.ret, "compute")
    /\ UNCHANGED <<sys_argv, catalogue_file, price_catalogue, computed,
                   price_catalogue_dict, i, total_cost, total_quantity,
                   unitary_cost, results_file>>

ComputeInit ==
    /\ pc = "compute"
    /\ computed' = TRUE
    /\ total_cost' = 0
    /\ total_quantity' = 0
    /\ unitary_cost' = <<>>
    /\ IF price_catalogue.type = "array"
       THEN /\ price_catalogue_dict' =
                   DictComprehension(price_catalogue.items, Len(price_catalogue.items))
            /\ IF sales_record.type = "array"
               THEN pc' = "loop" /\ i' = 1
               ELSE pc' = "raised" /\ i' = i
       ELSE /\ price_catalogue_dict' = price_catalogue_dict
            /\ pc' = "raised"
            /\ i' = i
    /\ UNCHANGED <<sys_argv, catalogue_file, sales_file, opens, price_catalogue,
                   sales_record, stdout, results_file>>

LoopStep ==
    /\ pc = "loop"
    /\ i <= Len(sales_record.items)
    /\ LET sale == sales_record.items[i]
           product_sold == sale.Product
           quantity == sale.Quantity
           hit == Lookup(price_catalogue_dict, product_sold)
       IN  IF hit.found
           THEN /\ total_cost' = FAdd(total_cost, LineCost(hit.item_price, quantity))
                /\ total_quantity' = total_quantity + quantity
                /\ unitary_cost' =
                       Accumulate(unitary_cost, product_sold, quantity, hit.item_price)
                /\ stdout' = stdout
           ELSE /\ stdout' = Warn(stdout, product_sold)
                /\ UNCHANGED <<total_cost, total_quantity, unitary_cost>>
    /\ i' = i + 1
    /\ UNCHANGED <<pc, sys_argv, catalogue_file, sales_file, opens, price_catalogue,
                   sales_record, computed, price_catalogue_dict, results_file>>

Report ==
    /\ pc = "loop"
    /\ i > Len(sales_record.items)
    /\ \E elapsed_time \in Elapsed :
         LET report_str == BuildReport(unitary_cost, total_quantity, total_cost, elapsed_time)
         IN  /\ stdout' = Append(stdout, report_str)
             /\ opens' = Append(opens, "SalesResults.txt")
             /\ results_file' = WriteResults(results_file, report_str)
    /\ pc' = "done"
    /\ UNCHANGED <<sys_argv, catalogue_file, sales_file, price_catalogue,
                   sales_record, computed, price_catalogue_dict, i, total_cost,
                   total_quantity, unitary_cost>>

Next == Start \/ LoadCatalogue \/ LoadSales \/ ComputeInit \/ LoopStep \/ Report

Spec == Init /\ [][Next]_vars

(* ======================= properties of the code ======================== *)

Cat == price_catalogue.items

Sales == sales_record.items

InCatalogue(p) == \E j \in 1..Len(Cat) : Cat[j].title = p

\* The price of the last catalogue entry whose title is p.
LastPrice(p) ==
    Cat[CHOOSE j \in 1..Len(Cat) :
            /\ Cat[j].title = p
            /\ \A k \in (j + 1)..Len(Cat) : Cat[k].title # p].price

\* compute_total_cost is in its loop, or has returned.
InLoop == computed /\ pc \in {"loop", "done"}

\* compute_total_cost has consumed the whole sales record.
Returned == InLoop /\ i = Len(Sales) + 1

Wrote == \E j \in 1..Len(opens) : opens[j] = "SalesResults.txt"

ProductRows(text) == SelectSeq(text, LAMBDA l : l.kind = "product")

\* Floating-point sum, in sales order, of price * Quantity over the matched
\* sales among the first n.
RECURSIVE MatchedCost(_, _)
MatchedCost(s, n) ==
    IF n = 0 THEN 0
    ELSE IF InCatalogue(s[n].Product)
         THEN FAdd(MatchedCost(s, n - 1), FMul(LastPrice(s[n].Product), s[n].Quantity))
         ELSE MatchedCost(s, n - 1)

RECURSIVE MatchedQuantity(_, _)
MatchedQuantity(s, n) ==
    IF n = 0 THEN 0
    ELSE IF InCatalogue(s[n].Product)
         THEN MatchedQuantity(s, n - 1) + s[n].Quantity
         ELSE MatchedQuantity(s, n - 1)

\* The same sums over the sales naming product p among the first n.
RECURSIVE ProductCost(_, _, _)
ProductCost(s, n, p) ==
    IF n = 0 THEN 0
    ELSE IF s[n].Product = p
         THEN FAdd(ProductCost(s, n - 1, p), FMul(LastPrice(p), s[n].Quantity))
         ELSE ProductCost(s, n - 1, p)

RECURSIVE ProductQuantity(_, _, _)
ProductQuantity(s, n, p) ==
    IF n = 0 THEN 0
    ELSE IF s[n].Product = p
         THEN ProductQuantity(s, n - 1, p) + s[n].Quantity
         ELSE ProductQuantity(s, n - 1, p)

\* The matched products of the first n sales, each once, in order of first
\* occurrence.
RECURSIVE FirstSeen(_, _)
FirstSeen(s, n) ==
    IF n = 0 THEN <<>>
    ELSE LET before == FirstSeen(s, n - 1)
         IN  IF /\ InCatalogue(s[n].Product)
                /\ \A j \in 1..Len(before) : before[j] # s[n].Product
             THEN Append(before, s[n].Product)
             ELSE before

Occurrences(s, p) == {j \in 1..Len(s) : s[j].Product = p}

Unmatched(s, n) == {j \in 1..n : ~InCatalogue(s[j].Product)}

Warnings(out) == {j \in 1..Len(out) : out[j][1].kind = "warning"}

(* C1. Join correctness: when compute_total_cost returns, total_cost is the *)
(* sum over exactly the matched sales of price(Product) * Quantity and      *)
(* total_quantity is the sum of Quantity over the same sales (sums and      *)
(* products taken in the code's floating-point arithmetic, in sales order). *)
C1_JoinCorrectness ==
    Returned =>
        /\ total_cost = MatchedCost(Sales, Len(Sales))
        /\ total_quantity = MatchedQuantity(Sales, Len(Sales))

C1_Witness ==
    /\ Returned
    /\ pc = "done"
    /\ Unmatched(Sales, Len(Sales)) # {}
    /\ Cardinality(Unmatched(Sales, Len(Sales))) < Len(Sales) - 1
    /\ total_cost > total_quantity

(* C2. Unmatched isolation: a loop step on a sale whose Product is not a    *)
(* catalogue title leaves total_cost, total_quantity and unitary_cost       *)
(* unchanged, prints exactly one warning naming the product, and moves on   *)
(* to the next sale; the warnings printed so far are as many as the         *)
(* unmatched sales processed so far.                                        *)
C2_UnmatchedStep ==
    (pc = "loop" /\ i <= Len(Sales) /\ ~InCatalogue(Sales[i].Product)) =>
        /\ total_cost' = total_cost
        /\ total_quantity' = total_quantity
        /\ unitary_cost' = unitary_cost
        /\ stdout' = Append(stdout, WarningMsg(Sales[i].Product))
        /\ i' = i + 1
        /\ pc' = "loop"

C2_WarningCount ==
    InLoop => Cardinality(Warnings(stdout)) = Cardinality(Unmatched(Sales, i - 1))

C2_UnmatchedIsolation == [][C2_UnmatchedStep]_vars /\ []C2_WarningCount

C2_Witness ==
    /\ pc = "done"
    /\ Returned
    /\ Len(Sales) = 3
    /\ ~InCatalogue(Sales[1].Product)
    /\ InCatalogue(Sales[2].Product)
    /\ Sales[3].Product = Sales[1].Product
    /\ Cardinality(Warnings(stdout)) = 2

(* C3. Duplicate accumulation: when compute_total_cost returns, every       *)
(* matched product that occurs in the sales has exactly one entry in        *)
(* unitary_cost, holding the sum of Quantity and the sum of                 *)
(* price * Quantity over all sales naming it; the report written has        *)
(* exactly one row per distinct matched product.                            *)
C3_DuplicateAccumulation ==
    Returned =>
        /\ \A p \in Products :
             (InCatalogue(p) /\ Occurrences(Sales, p) # {}) =>
                 /\ Cardinality({j \in 1..Len(unitary_cost) : unitary_cost[j].key = p}) = 1
                 /\ DictGet(unitary_cost, p) =
                        <<ProductQuantity(Sales, Len(Sales), p),
                          ProductCost(Sales, Len(Sales), p)>>
        /\ pc = "done" =>
             /\ Len(ProductRows(results_file)) =
                    Cardinality({p \in Products :
                                    InCatalogue(p) /\ Occurrences(Sales, p) # {}})
             /\ \A p \in Products :
                    Cardinality({j \in 1..Len(results_file) :
                                    /\ results_file[j].kind = "product"
                                    /\ results_file[j].label = p}) <= 1

C3_Witness ==
    /\ pc = "done"
    /\ Returned
    /\ Len(Sales) = 3
    /\ Sales[1].Product = Sales[3].Product
    /\ Sales[1].Product # Sales[2].Product
    /\ InCatalogue(Sales[1].Product)
    /\ InCatalogue(Sales[2].Product)
    /\ Len(unitary_cost) = 2

(* C4. Order preservation: after every processed prefix of the sales the    *)
(* keys of unitary_cost, in iteration order, are the matched products in    *)
(* order of first occurrence in the sales, whatever the catalogue order     *)
(* and whatever repeats follow; the report's product rows come in that      *)
(* order.                                                                   *)
C4_OrderPreservation ==
    /\ InLoop => DictKeys(unitary_cost) = FirstSeen(Sales, i - 1)
    /\ (pc = "done" /\ Returned) =>
           LET rows == ProductRows(results_file)
           IN  [j \in 1..Len(rows) |-> rows[j].label] = FirstSeen(Sales, Len(Sales))

C4_Witness ==
    /\ pc = "done"
    /\ Returned
    /\ Len(Cat) = 2
    /\ Cat[1].title = "B"
    /\ Cat[2].title = "A"
    /\ Len(Sales) = 3
    /\ Sales[1].Product = "A"
    /\ Sales[2].Product = "B"
    /\ Sales[3].Product = "A"
    /\ DictKeys(unitary_cost) = <<"A", "B">>

Fatal(file) == file.status \in {"missing", "malformed"}

Diagnostic(file, filename) ==
    IF file.status = "missing" THEN NotFoundMsg(filename) ELSE InvalidMsg(filename)

\* The run has ended without running the aggregator or touching the report.
EndedWithoutReport ==
    /\ pc = "done"
    /\ ~computed
    /\ ~Wrote
    /\ results_file = PriorContent

(* C5. No report on a fatal condition: with an argument count other than    *)
(* two the usage text is printed, and with a missing or malformed input     *)
(* file the message naming that path is printed; in each case nothing else  *)
(* is printed, compute_total_cost is never called, SalesResults.txt is      *)
(* neither opened nor changed, and the run ends; when the catalogue fails   *)
(* to load the sales file is never opened.                                  *)
C5_NoReportOnFatal ==
    /\ (Len(sys_argv) # 3 /\ pc # "start") =>
           /\ stdout = <<UsageMsg>>
           /\ opens = <<>>
           /\ EndedWithoutReport
    /\ Fatal(catalogue_file) =>
           /\ stdout = <<Diagnostic(catalogue_file, sys_argv[2])>>
           /\ opens = <<sys_argv[2]>>
           /\ sales_file = Unread
           /\ EndedWithoutReport
    /\ Fatal(sales_file) =>
           /\ stdout = <<Diagnostic(sales_file, sys_argv[3])>>
           /\ opens = <<sys_argv[2], sys_argv[3]>>
           /\ EndedWithoutReport

C5_Witness ==
    /\ catalogue_file.status = "malformed"
    /\ pc = "done"
    /\ stdout = <<InvalidMsg("priceCatalogue.json")>>

DiagnosticPrinted ==
    \E j \in 1..Len(stdout) : stdout[j][1].kind \in {"usage", "not_found", "invalid_json"}

(* C6. Exit dichotomy: every run that has ended either wrote                *)
(* SalesResults.txt and printed no diagnostic, or printed a diagnostic and  *)
(* wrote no file; a run that wrote no file had a wrong argument count or a  *)
(* missing or malformed input file.                                         *)
C6_ExitDichotomy ==
    pc \in {"done", "raised"} =>
        /\ Wrote # DiagnosticPrinted
        /\ ~Wrote => (Len(sys_argv) # 3 \/ Fatal(catalogue_file) \/ Fatal(sales_file))

ReportKinds == {"sep", "header", "product", "total", "time"}

AllUnmatched == \A j \in 1..Len(Sales) : ~InCatalogue(Sales[j].Product)

(* C8. Empty and all-unmatched input: when both documents are arrays and    *)
(* no sale names a catalogue title (the sales may be empty), the run        *)
(* neither ends early nor raises, the totals stay 0 and unitary_cost stays  *)
(* empty, and the report written holds no product row: only separators,     *)
(* the header, the totals row with 0 and $0.00, and the elapsed-time row.   *)
C8_EmptyAndUnmatched ==
    (/\ catalogue_file.status = "json" /\ price_catalogue.type = "array"
     /\ sales_file.status = "json" /\ sales_record.type = "array"
     /\ AllUnmatched) =>
        /\ pc \in {"compute", "loop", "done"}
        /\ total_cost = 0
        /\ total_quantity = 0
        /\ unitary_cost = <<>>
        /\ pc = "done" =>
             /\ Wrote
             /\ \E e \in Elapsed : results_file = BuildReport(<<>>, 0, 0, e)
             /\ [j \in 1..Len(results_file) |-> results_file[j].kind] =
                    <<"sep", "header", "sep", "sep", "total", "sep", "time", "sep">>

C8_Witness ==
    /\ pc = "done"
    /\ Wrote
    /\ Len(Cat) > 0
    /\ Len(Sales) = 2
    /\ AllUnmatched
    /\ Len(ProductRows(results_file)) = 0

Duplicated == {t \in Titles : Cardinality({j \in 1..Len(Cat) : Cat[j].title = t}) > 1}

(* C9. Duplicate catalogue titles are last-write-wins: a title that occurs  *)
(* more than once in the catalogue has exactly one entry in the lookup      *)
(* dict, holding the price of its last catalogue entry; that price is the   *)
(* one in the product's accumulated cost and in total_cost after every      *)
(* processed prefix, and the duplicate raises no error.                     *)
C9_LastWriteWins ==
    (computed /\ price_catalogue.type = "array") =>
        \A t \in Duplicated :
            /\ Cardinality({j \in 1..Len(price_catalogue_dict) :
                               price_catalogue_dict[j].key = t}) = 1
            /\ DictGet(price_catalogue_dict, t) = LastPrice(t)
            /\ sales_record.type = "array" => pc # "raised"
            /\ InLoop =>
                 /\ total_cost = MatchedCost(Sales, i - 1)
                 /\ DictHas(unitary_cost, t) =>
                        DictGet(unitary_cost, t)[2] = ProductCost(Sales, i - 1, t)

C9_Witness ==
    /\ pc = "done"
    /\ Len(Cat) = 2
    /\ Cat[1] = [title |-> "A", price |-> 3]
    /\ Cat[2] = [title |-> "A", price |-> 1]
    /\ Len(Sales) = 1
    /\ Sales[1] = [Product |-> "A", Quantity |-> 3]
    /\ total_cost = 3

RECURSIVE SumQuantities(_, _)
SumQuantities(uc, n) == IF n = 0 THEN 0 ELSE SumQuantities(uc, n - 1) + uc[n].value[1]

\* The exact (real-number) sum of the per-product costs.
RECURSIVE SumCosts(_, _)
SumCosts(uc, n) == IF n = 0 THEN 0 ELSE SumCosts(uc, n - 1) + uc[n].value[2]

KeysAreProcessedTitles ==
    \A j \in 1..Len(unitary_cost) :
        /\ InCatalogue(unitary_cost[j].key)
        /\ \E k \in 1..(i - 1) : Sales[k].Product = unitary_cost[j].key

NonNegativeInput ==
    /\ \A j \in 1..Len(Cat) : Cat[j].price >= 0
    /\ \A j \in 1..Len(Sales) : Sales[j].Quantity >= 0

NeverDecreased ==
    NonNegativeInput =>
        /\ total_cost' >= total_cost
        /\ total_quantity' >= total_quantity
        /\ \A j \in 1..Len(unitary_cost) :
             /\ DictHas(unitary_cost', unitary_cost[j].key)
             /\ DictGet(unitary_cost', unitary_cost[j].key)[1] >= unitary_cost[j].value[1]
             /\ DictGet(unitary_cost', unitary_cost[j].key)[2] >= unitary_cost[j].value[2]

(* C10 as stated. Aggregate consistency: after every processed prefix,      *)
(* total_quantity is the sum of the per-product quantities, total_cost is   *)
(* the sum of the per-product costs, and every key of unitary_cost is a     *)
(* catalogue title and the product of a sale already processed.  (The       *)
(* claim's last clause, that no step decreases a total or an entry, is the  *)
(* action formula NeverDecreased, part of C10_AggregateConsistency below.)  *)
C10_AsStated ==
    InLoop =>
        /\ total_quantity = SumQuantities(unitary_cost, Len(unitary_cost))
        /\ total_cost = SumCosts(unitary_cost, Len(unitary_cost))
        /\ KeysAreProcessedTitles

\* No multiplication or addition made for the first n sales has rounded.
RECURSIVE NoRounding(_, _)
NoRounding(s, n) ==
    IF n = 0 THEN TRUE
    ELSE /\ NoRounding(s, n - 1)
         /\ InCatalogue(s[n].Product) =>
              LET exact == LastPrice(s[n].Product) * s[n].Quantity
              IN  /\ FRound(exact) = exact
                  /\ FRound(MatchedCost(s, n - 1) + exact) = MatchedCost(s, n - 1) + exact
                  /\ FRound(ProductCost(s, n - 1, s[n].Product) + exact) =
                         ProductCost(s, n - 1, s[n].Product) + exact

C10_Consistent ==
    InLoop =>
        /\ total_quantity = SumQuantities(unitary_cost, Len(unitary_cost))
        /\ total_cost = MatchedCost(Sales, i - 1)
        /\ \A j \in 1..Len(unitary_cost) :
             unitary_cost[j].value[2] = ProductCost(Sales, i - 1, unitary_cost[j].key)
        /\ NoRounding(Sales, i - 1) =>
             total_cost = SumCosts(unitary_cost, Len(unitary_cost))
        /\ KeysAreProcessedTitles

(* C10 as amended. After every processed prefix, total_quantity is the sum  *)
(* of the per-product quantities; total_cost is the floating-point sum, in  *)
(* sales order, of the line costs of the matched sales processed, and each  *)
(* per-product cost is the floating-point sum, in sales order, of that      *)
(* product's line costs, so that total_cost equals the sum of the           *)
(* per-product costs whenever no operation so far has rounded; every key    *)
(* of unitary_cost is a catalogue title and the product of a sale already   *)
(* processed; and with non-negative quantities and prices no step           *)
(* decreases a total or a per-product entry.                                *)
C10_AggregateConsistency == []C10_Consistent /\ [][NeverDecreased]_vars

C10_Witness ==
    /\ pc = "done"
    /\ Returned
    /\ ~NoRounding(Sales, Len(Sales))
    /\ Len(unitary_cost) = 2
    /\ total_cost # SumCosts(unitary_cost, Len(unitary_cost))

=============================================================================
